---------------------------- MODULE Spec2Model ----------------------------
(***************************************************************************)
(* A model of appsync-client-node: graphQlClient (one HTTP attempt per     *)
(* invocation, recursive retry on ECONNRESET, socket timeout, abort        *)
(* signal, API-key or SigV4 headers) and the appSyncClient wrapper.        *)
(* The code modelled is the version with maxRetries / timeoutMs / signal.  *)
(***************************************************************************)
EXTENDS Integers, Sequences, FiniteSets, TLC

(***************************************************************************)
(* Program constants and model bounds                                      *)
(***************************************************************************)
\* const APPSYNC_MAX_QUERY_RUNTIME_MS = 30 * 1000
APPSYNC_MAX_QUERY_RUNTIME_MS == 30000
\* maxRetries = 5 (parameter default of graphQlClient)
DefaultMaxRetries == 5
\* largest maxRetries a direct caller of graphQlClient passes in the model
MaxRetriesArg == 3

GRAPHQL_API_ENDPOINT_ENV_NAME == "GRAPHQL_API_ENDPOINT"

\* "undefined": an argument not passed, an environment variable not set
None == "undefined"

\* a numeric argument that was not passed (undefined)
NotPassed == 0 - 1
\* timeoutMs values a caller passes
TimeoutArgs == {NotPassed, 1000}
\* how long the server takes, per handling attempt, before it acts (ms)
Delays == {500, 1200, 31000}

\* An endpoint URL string, by its parts: protocol, the host's labels, the
\* port ("" when the string has none) and the path ("" when the string ends
\* after the host).
Url(protocol, labels, port, path) ==
    [protocol |-> protocol, labels |-> labels, port |-> port, path |-> path]
NoUrl == Url("", <<>>, "", "")
\* https://abc.appsync-api.eu-central-1.amazonaws.com/graphql
AwsUrl == Url("https:", <<"abc", "appsync-api", "eu-central-1", "amazonaws", "com">>, "", "/graphql")
\* http://localhost:8080/graphql
LocalUrl == Url("http:", <<"localhost">>, "8080", "/graphql")
\* https://abc.appsync-api.eu-west-1.amazonaws.com : the same kind of host,
\* the string ends after it
AwsUrlNoPath == Url("https:", <<"abc", "appsync-api", "eu-west-1", "amazonaws", "com">>, "", "")
Urls == {AwsUrl, AwsUrlNoPath, LocalUrl}

TheRequest == "query me { name }"
TheKey == "da2-key"

(***************************************************************************)
(* Values: strings (response text), parsed JSON objects, errors            *)
(***************************************************************************)
\* One shape for a JS string and for a parsed JSON object.  type = "string":
\* a text; json says whether the text is well-formed JSON, and then
\* data/hasErrors/errors describe the object it encodes; raw is the text of
\* a body that is not JSON.  type = "object": the object itself.
Value(type, json, raw, data, hasErrors, errors) ==
    [type |-> type, json |-> json, raw |-> raw, data |-> data,
     hasErrors |-> hasErrors, errors |-> errors]

RawText(s) == Value("string", FALSE, s, None, FALSE, <<>>)
JsonText(data, hasErrors, errors) == Value("string", TRUE, "", data, hasErrors, errors)
NoValue == Value("undefined", FALSE, "", None, FALSE, <<>>)

\* JSON.stringify of an object: the text that encodes it
JSONstringify(v) == [v EXCEPT !.type = "string", !.json = TRUE]
\* JSON.parse: defined on well-formed texts only (it throws on the others)
CanParse(text) == text.type = "string" /\ text.json
JSONparse(text) == [text EXCEPT !.type = "object", !.json = FALSE]

Unauthorized == "Unauthorized"
NotFound == "NotFound"

\* the response bodies the server sends
Bodies ==
    { RawText("Forbidden"),
      JsonText("page", FALSE, <<>>),
      JsonText("page", TRUE, <<>>),
      JsonText("null", TRUE, <<Unauthorized>>),
      JsonText(None, TRUE, <<Unauthorized, NotFound>>) }

\* content-type response header values (None: the header is absent)
ContentTypes == {None, "application/json", "Application/JSON; charset=UTF-8", "text/html"}
StatusCodes == {200, 403}

\* mutant: the header value is compared as it is, letter case included
toLowerCase_asIs(s) == s

\* String.prototype.toLowerCase on the content types of the model
toLowerCase(s) ==
    IF s = "Application/JSON; charset=UTF-8" THEN "application/json; charset=utf-8" ELSE s
\* String.prototype.includes("application/json") on the lower-cased values
includesApplicationJson(s) ==
    s \in {"application/json", "application/json; charset=utf-8"}

\* Error objects
Err(name, code, message, detail, request) ==
    [name |-> name, code |-> code, message |-> message, detail |-> detail,
     request |-> request]
NoError == Err("", "", "", NoValue, None)
\* class TimeoutError extends Error { name = "TimeoutError"; request }
TimeoutError(message, request) == Err("TimeoutError", "", message, NoValue, request)

(***************************************************************************)
(* State                                                                   *)
(***************************************************************************)
VARIABLES
    env,            \* process.env: AWS_REGION, GRAPHQL_API_ENDPOINT
    call,           \* the caller's invocation: function and arguments
    args,           \* parameters of the current graphQlClient invocation
    pc,             \* where the current invocation stands
    headers,        \* req.headers of the current HttpRequest
    server,         \* what the server does with the current attempt
    response,       \* the IncomingMessage of the current attempt
    promise,        \* the promise graphQlClient returned to its caller
    result,         \* the promise appSyncClient returned to its caller
    log,            \* console.error output
    callerAborted,  \* the caller's AbortSignal has been aborted
    attempts,       \* history: one record per request handed to h.request
    credCalls,      \* history: calls of credentialProvider()
    signed,         \* history: header sets returned by signer.sign
    backoffs,       \* history: inter-retry waits started
    chunks,         \* gql: the literal parts of the tagged template
    variables,      \* gql: the substitution values of the tagged template
    query,          \* gql: the string the tag returned
    requery,        \* gql: the string gql returns for gql`${query}`
    gqlPc           \* gql: "idle", "source", "tagged", "retagged"

\* the variables of the gql tag
gqlVars == <<chunks, variables, query, requery, gqlPc>>
\* the variables of graphQlClient and appSyncClient
clientVars == <<env, call, args, pc, headers, server, response, promise, result, log,
                callerAborted, attempts, credCalls, signed, backoffs>>
vars == <<env, call, args, pc, headers, server, response, promise, result, log,
          callerAborted, attempts, credCalls, signed, backoffs,
          chunks, variables, query, requery, gqlPc>>

Args(appsyncUrl, apiKey, request, region, maxRetries, timeoutMs, signal) ==
    [appsyncUrl |-> appsyncUrl, apiKey |-> apiKey, request |-> request,
     region |-> region, maxRetries |-> maxRetries, timeoutMs |-> timeoutMs,
     signal |-> signal]
NoArgs == Args(NoUrl, None, None, None, NotPassed, NotPassed, None)

\* a promise: pending, fulfilled with a value, or rejected with an error
Pending == [state |-> "pending", statusCode |-> 0, body |-> NoValue, error |-> NoError]
Fulfilled(statusCode, body) ==
    [state |-> "fulfilled", statusCode |-> statusCode, body |-> body, error |-> NoError]
Rejected(err) ==
    [state |-> "rejected", statusCode |-> 0, body |-> NoValue, error |-> err]
\* resolve / reject of a promise: only the first call settles it
Settle(p, outcome) == IF p.state = "pending" THEN outcome ELSE p

NoServer == [kind |-> "none", delay |-> 0]
NoResponse == [statusCode |-> 0, contentType |-> None, data |-> NoValue]

(***************************************************************************)
(* graphQlClient: parameter defaults, request construction, auth headers   *)
(***************************************************************************)
\* /\.([^.]+)\.amazonaws\.com\//.exec(appsyncUrl)?.[1] : the label before
\* "amazonaws.com", when a label precedes it and "/" follows "com" directly
InferRegion(url) ==
    LET n == Len(url.labels) IN
    IF /\ n >= 4
       /\ url.labels[n - 1] = "amazonaws"
       /\ url.labels[n] = "com"
       /\ url.port = ""
       /\ url.path # ""
    THEN url.labels[n - 2]
    ELSE None

\* mutant: a hard-wired region stands in when none can be resolved
DefaultRegion_fallback(a) ==
    IF a.region # None THEN a.region
    ELSE IF InferRegion(a.appsyncUrl) # None THEN InferRegion(a.appsyncUrl)
    ELSE IF env.AWS_REGION # None THEN env.AWS_REGION
    ELSE "us-east-1"

\* region = <inferred> ?? process.env.AWS_REGION, when region is not passed
DefaultRegion(a) ==
    IF a.region # None THEN a.region
    ELSE IF InferRegion(a.appsyncUrl) # None THEN InferRegion(a.appsyncUrl)
    ELSE env.AWS_REGION

\* the destructured parameters with their defaults applied
WithDefaults(a) ==
    [a EXCEPT !.region = DefaultRegion(a),
              !.maxRetries = IF a.maxRetries = NotPassed THEN DefaultMaxRetries ELSE a.maxRetries,
              !.timeoutMs = IF a.timeoutMs = NotPassed THEN APPSYNC_MAX_QUERY_RUNTIME_MS ELSE a.timeoutMs,
              !.signal = IF a.signal = None THEN "default" ELSE a.signal]

\* new HttpRequest({... headers: {"Content-Type": "application/json", host}})
BaseHeaders(a) ==
    ("Content-Type" :> "application/json") @@ ("host" :> a.appsyncUrl.labels)

\* if (apiKey) req.headers["x-api-key"] = apiKey
ApiKeyHeaders(a) == ("x-api-key" :> a.apiKey) @@ BaseHeaders(a)

\* signer.sign(req): the SigV4 signer's header set for the n-th signing
SignerHeaders(a, n) ==
    ("x-amz-date" :> n) @@ ("authorization" :> <<"AWS4-HMAC-SHA256", a.region, n>>)
        @@ BaseHeaders(a)

\* if (apiKey): a JS string is truthy unless undefined or empty
Truthy(str) == str # None /\ str # ""

\* history: the event that ended the current attempt
Ended(ev) == attempts' = [attempts EXCEPT ![Len(attempts)].event = ev]

\* what servers do with a request: reset the connection before answering,
\* answer, answer the head and reset during the body, answer and reset the
\* connection after the body ("lastreset"), or refuse to connect
Kinds == {"reset", "answer", "midreset", "lastreset", "refused"}
\* the kinds in which the server's request handler runs
Handled == {"reset", "answer", "midreset", "lastreset"}

\* h.request(...); httpRequest.end(req.body): the request is on its way
Send(a, hdrs) ==
    /\ pc' = "sent"
    /\ headers' = hdrs
    /\ response' = NoResponse
    /\ IF a.signal = "caller" /\ callerAborted
       THEN server' = NoServer
       ELSE \E k \in Kinds, d \in Delays : server' = [kind |-> k, delay |-> d]
    /\ attempts' = Append(attempts,
           [headers |-> hdrs, kind |-> server'.kind, maxRetries |-> a.maxRetries,
            timeoutMs |-> a.timeoutMs, region |-> a.region, event |-> "none"])

\* appSyncClient awaits graphQlClient: once that promise is settled the
\* continuation runs as a microtask, before the event loop delivers any
\* further event.
AwaitReady ==
    call.fn = "appSyncClient" /\ promise.state # "pending" /\ result.state = "pending"

\* new ReferenceError("region is required, but wasn't provided")
RegionError ==
    Err("ReferenceError", "", "region is required, but wasn't provided", NoValue, None)

\* if (!region) throw new ReferenceError(...)
EnterNoRegion ==
    /\ ~AwaitReady
    /\ pc = "enter"
    /\ ~Truthy(WithDefaults(args).region)
    /\ args' = WithDefaults(args)
    /\ promise' = Settle(promise, Rejected(RegionError))
    /\ pc' = "threw"
    /\ UNCHANGED gqlVars
    /\ UNCHANGED <<env, call, headers, server, response, result, log, callerAborted,
                   attempts, credCalls, signed, backoffs>>

\* apiKey branch: the header is set and the request is sent at once
EnterApiKey ==
    /\ ~AwaitReady
    /\ pc = "enter"
    /\ Truthy(WithDefaults(args).region)
    /\ Truthy(args.apiKey)
    /\ args' = WithDefaults(args)
    /\ Send(args', ApiKeyHeaders(args'))
    /\ UNCHANGED gqlVars
    /\ UNCHANGED <<env, call, promise, result, log, callerAborted, credCalls, signed,
                   backoffs>>

\* else branch: credentialProvider() is called and signer.sign(req) awaited
EnterSign ==
    /\ ~AwaitReady
    /\ pc = "enter"
    /\ Truthy(WithDefaults(args).region)
    /\ ~Truthy(args.apiKey)
    /\ args' = WithDefaults(args)
    /\ credCalls' = credCalls + 1
    /\ headers' = BaseHeaders(args')
    /\ pc' = "sign"
    /\ UNCHANGED gqlVars
    /\ UNCHANGED <<env, call, server, response, promise, result, log, callerAborted,
                   attempts, signed, backoffs>>

\* mutant: the signer's header set is dropped, the request keeps its own
AssignHeaders_keep(reqHeaders, signerHeaders) == reqHeaders

\* req.headers = headers: the signer's header set replaces the request's
AssignHeaders(reqHeaders, signerHeaders) == signerHeaders

\* const { headers } = await signer.sign(req); req.headers = headers
SignDone ==
    /\ ~AwaitReady
    /\ pc = "sign"
    /\ signed' = Append(signed, SignerHeaders(args, Len(signed) + 1))
    /\ Send(args, AssignHeaders(headers, signed'[Len(signed')]))
    /\ UNCHANGED gqlVars
    /\ UNCHANGED <<env, call, args, promise, result, log, callerAborted, credCalls,
                   backoffs>>

\* await signer.sign(req) rejects (no credentials): graphQlClient rejects
SignFail ==
    /\ ~AwaitReady
    /\ pc = "sign"
    /\ promise' = Settle(promise,
           Rejected(Err("CredentialsProviderError", "", "Could not load credentials", NoValue, None)))
    /\ pc' = "threw"
    /\ UNCHANGED gqlVars
    /\ UNCHANGED <<env, call, args, headers, server, response, result, log,
                   callerAborted, attempts, credCalls, signed, backoffs>>

(***************************************************************************)
(* graphQlClient: the events of one attempt                                *)
(***************************************************************************)
ConnReset(message) == Err("Error", "ECONNRESET", message, NoValue, None)
ConnRefused == Err("Error", "ECONNREFUSED", "connect ECONNREFUSED", NoValue, None)
AbortError == Err("AbortError", "ABORT_ERR", "The operation was aborted", NoValue, None)

\* mutant: the retry budget test is off by one (maxRetries > 2)
ShouldRetry_offByOne(err, maxRetries) == err.code = "ECONNRESET" /\ maxRetries > 2
\* mutant: the retry budget test admits one attempt more (maxRetries >= 1)
ShouldRetry_oneMore(err, maxRetries) == err.code = "ECONNRESET" /\ maxRetries >= 1
\* mutant: every request error is retried, whatever its code
ShouldRetry_anyError(err, maxRetries) == maxRetries > 1

\* err.code === "ECONNRESET" && maxRetries > 1
ShouldRetry(err, maxRetries) == err.code = "ECONNRESET" /\ maxRetries > 1

\* httpRequest.once("error", async (err) => {...}): wait and retry, or reject
OnRequestError(err, ev) ==
    /\ Ended(ev)
    /\ IF ShouldRetry(err, args.maxRetries)
       THEN /\ pc' = "backoff"
            /\ backoffs' = backoffs + 1
            /\ UNCHANGED promise
       ELSE /\ pc' = "done"
            /\ promise' = Settle(promise, Rejected(err))
            /\ UNCHANGED backoffs

\* The caller's signal, handed to h.request, has aborted: the request is
\* destroyed at once and no other event of the attempt reaches a listener
\* before the AbortError does.
Aborting == args.signal = "caller" /\ callerAborted /\ pc \in {"sent", "body"}

\* the server has not acted when the attempt's timeoutMs has passed
Silent == server.kind \in Handled /\ server.delay >= args.timeoutMs

\* the peer resets the connection before any response: "socket hang up"
ReqReset ==
    /\ ~AwaitReady
    /\ ~Aborting
    /\ pc = "sent"
    /\ server.kind = "reset"
    /\ ~Silent
    /\ OnRequestError(ConnReset("socket hang up"), "reset")
    /\ UNCHANGED gqlVars
    /\ UNCHANGED <<env, call, args, headers, server, response, result, log,
                   callerAborted, credCalls, signed>>

\* another transport error (connection refused, DNS)
ReqRefused ==
    /\ ~AwaitReady
    /\ ~Aborting
    /\ pc = "sent"
    /\ server.kind = "refused"
    /\ OnRequestError(ConnRefused, "refused")
    /\ UNCHANGED gqlVars
    /\ UNCHANGED <<env, call, args, headers, server, response, result, log,
                   callerAborted, credCalls, signed>>

\* mutant: on a timeout the call waits and retries and the request is not
\* destroyed, so the attempt stays in flight
SocketTimeout_retryWithoutDestroy ==
    /\ ~AwaitReady
    /\ pc = "sent"
    /\ Silent
    /\ args.maxRetries > 1
    /\ pc' = "backoff"
    /\ backoffs' = backoffs + 1
    /\ UNCHANGED gqlVars
    /\ UNCHANGED <<env, call, args, headers, server, response, promise, result, log,
                   callerAborted, attempts, credCalls, signed>>

\* httpRequest.once("timeout", () => httpRequest.destroy(new TimeoutError(..)))
\* and the "error" event the destroy emits
SocketTimeout ==
    /\ ~AwaitReady
    /\ ~Aborting
    /\ pc = "sent"
    /\ Silent
    /\ OnRequestError(TimeoutError("Operation timed out", args.request), "timeout")
    /\ UNCHANGED gqlVars
    /\ UNCHANGED <<env, call, args, headers, server, response, result, log,
                   callerAborted, credCalls, signed>>

\* the signal handed to h.request aborts: the request is destroyed with an
\* AbortError.  The default signal is AbortSignal.timeout(timeoutMs).
SignalAbort ==
    /\ ~AwaitReady
    /\ pc \in {"sent", "body"}
    /\ \/ args.signal = "default" /\ pc = "sent" /\ Silent
       \/ args.signal = "caller" /\ callerAborted
    /\ OnRequestError(AbortError, "abort")
    /\ UNCHANGED gqlVars
    /\ UNCHANGED <<env, call, args, headers, server, response, result, log,
                   callerAborted, credCalls, signed>>

\* the response callback: status line and headers have arrived; data is the
\* text the "data" events will have collected at "end" (none when the
\* connection is reset during the body)
ResponseHead ==
    /\ ~AwaitReady
    /\ ~Aborting
    /\ pc = "sent"
    /\ server.kind \in {"answer", "midreset", "lastreset"}
    /\ ~Silent
    /\ \E sc \in StatusCodes, ct \in ContentTypes,
          b \in CASE server.kind = "answer" -> Bodies
                   [] server.kind = "midreset" -> {NoValue}
                   [] server.kind = "lastreset" -> {JsonText("page", FALSE, <<>>)} :
          /\ server.kind = "lastreset" => sc = 200 /\ ct = "application/json"
          /\ response' = [statusCode |-> sc, contentType |-> ct, data |-> b]
    /\ pc' = "body"
    /\ UNCHANGED gqlVars
    /\ UNCHANGED <<env, call, args, headers, server, promise, result, log,
                   callerAborted, attempts, credCalls, signed, backoffs>>

\* result.headers["content-type"]?.toLowerCase().includes("application/json")
IsJsonResponse(res) ==
    res.contentType # None /\ includesApplicationJson(toLowerCase(res.contentType))

\* mutant: a parsed body that carries errors rejects the promise
Resolution_rejectErrors(res) ==
    IF IsJsonResponse(res) /\ res.data.json /\ res.data.hasErrors /\ Len(res.data.errors) > 0
    THEN Rejected(Err("Error", "", "GraphQL errors", res.data, None))
    ELSE Fulfilled(res.statusCode,
                   IF IsJsonResponse(res) THEN JSONparse(res.data) ELSE res.data)

\* the value the "end" listener resolves with: {statusCode, body}
Resolution(res) ==
    Fulfilled(res.statusCode,
              IF IsJsonResponse(res) THEN JSONparse(res.data) ELSE res.data)

\* .once("end", () => resolve({statusCode, body: <json> ? JSON.parse(data) : data}))
ResEnd ==
    /\ ~AwaitReady
    /\ ~Aborting
    /\ pc = "body"
    /\ server.kind \in {"answer", "lastreset"}
    /\ IF IsJsonResponse(response) /\ ~CanParse(response.data)
       THEN \* JSON.parse throws inside the "end" listener
            /\ pc' = "uncaught"
            /\ Ended("parse-throw")
            /\ UNCHANGED promise
       ELSE /\ pc' = "done"
            /\ Ended("end")
            /\ promise' = Settle(promise, Resolution(response))
    /\ UNCHANGED gqlVars
    /\ UNCHANGED <<env, call, args, headers, server, response, result, log,
                   callerAborted, credCalls, signed, backoffs>>

\* the connection closes during the body: .once("error", (err) => reject(err))
BodyAborted ==
    /\ ~AwaitReady
    /\ ~Aborting
    /\ pc = "body"
    /\ server.kind = "midreset"
    /\ promise' = Settle(promise, Rejected(ConnReset("aborted")))
    /\ pc' = "done"
    /\ Ended("aborted")
    /\ UNCHANGED gqlVars
    /\ UNCHANGED <<env, call, args, headers, server, response, result, log,
                   callerAborted, credCalls, signed, backoffs>>

\* the socket fails with ECONNRESET during the body: the request's "error"
\* listener runs first, then the response's "error" listener rejects
BodySocketError ==
    /\ ~AwaitReady
    /\ ~Aborting
    /\ pc = "body"
    /\ server.kind = "midreset"
    /\ Ended("body-reset")
    /\ IF ShouldRetry(ConnReset("read ECONNRESET"), args.maxRetries)
       THEN /\ pc' = "backoff"
            /\ backoffs' = backoffs + 1
            /\ promise' = Settle(promise, Rejected(ConnReset("aborted")))
       ELSE /\ pc' = "done"
            /\ promise' = Settle(promise, Rejected(ConnReset("read ECONNRESET")))
            /\ UNCHANGED backoffs
    /\ UNCHANGED gqlVars
    /\ UNCHANGED <<env, call, args, headers, server, response, result, log,
                   callerAborted, credCalls, signed>>

\* The socket fails with ECONNRESET after the response was read to its end.
\* The agent without keep-alive (http:) leaves the request's socket listeners
\* in place until the socket has closed, so the request's "error" listener,
\* which has not run yet, still receives the error.
LateSocketError ==
    /\ ~AwaitReady
    /\ pc = "done"
    /\ attempts # <<>>
    /\ attempts[Len(attempts)].event = "end"
    /\ server.kind = "lastreset"
    /\ args.appsyncUrl.protocol = "http:"
    /\ OnRequestError(ConnReset("read ECONNRESET"), "late-reset")
    /\ UNCHANGED gqlVars
    /\ UNCHANGED <<env, call, args, headers, server, response, result, log,
                   callerAborted, credCalls, signed>>

\* mutant: the recursive call does not pass the API key on
RetryArgs_noKey(a) ==
    Args(a.appsyncUrl, None, a.request, a.region, a.maxRetries - 1, NotPassed, None)

\* the arguments of the recursive call: graphQlClient({appsyncUrl, apiKey,
\* request, region, maxRetries: maxRetries - 1}); timeoutMs and signal are
\* not passed on
RetryArgs(a) ==
    Args(a.appsyncUrl, a.apiKey, a.request, a.region, a.maxRetries - 1, NotPassed, None)

\* await setTimeout(randomInt(100, 1500)); resolve(graphQlClient({...}))
BackoffDone ==
    /\ ~AwaitReady
    /\ pc = "backoff"
    /\ args' = RetryArgs(args)
    /\ pc' = "enter"
    /\ UNCHANGED gqlVars
    /\ UNCHANGED <<env, call, headers, server, response, promise, result, log,
                   callerAborted, attempts, credCalls, signed, backoffs>>

\* the caller aborts the AbortSignal it passed
CallerAbort ==
    /\ ~AwaitReady
    /\ call.signal = "caller"
    /\ ~callerAborted
    /\ pc \notin {"done", "threw", "uncaught"}
    /\ callerAborted' = TRUE
    /\ UNCHANGED gqlVars
    /\ UNCHANGED <<env, call, args, pc, headers, server, response, promise, result, log,
                   attempts, credCalls, signed, backoffs>>

(***************************************************************************)
(* appSyncClient: the wrapper that throws when there are errors            *)
(***************************************************************************)
\* mutant: the environment variable wins over the explicit argument
DefaultEndpoint_envFirst(url) ==
    IF env[GRAPHQL_API_ENDPOINT_ENV_NAME] # NoUrl THEN env[GRAPHQL_API_ENDPOINT_ENV_NAME] ELSE url

\* appsyncUrl = process.env[GRAPHQL_API_ENDPOINT_ENV_NAME]
DefaultEndpoint(url) == IF url = NoUrl THEN env[GRAPHQL_API_ENDPOINT_ENV_NAME] ELSE url

\* new Error("appsyncUrl should be provided")
EndpointError == Err("Error", "", "appsyncUrl should be provided", NoValue, None)

\* if (!appsyncUrl) throw new Error(...)
AppSyncNoEndpoint ==
    /\ ~AwaitReady
    /\ pc = "call"
    /\ DefaultEndpoint(call.appsyncUrl) = NoUrl
    /\ result' = Settle(result, Rejected(EndpointError))
    /\ pc' = "threw"
    /\ UNCHANGED gqlVars
    /\ UNCHANGED <<env, call, args, headers, server, response, promise, log,
                   callerAborted, attempts, credCalls, signed, backoffs>>

\* const result = await graphQlClient({request, appsyncUrl})
AppSyncInvoke ==
    /\ ~AwaitReady
    /\ pc = "call"
    /\ DefaultEndpoint(call.appsyncUrl) # NoUrl
    /\ args' = Args(DefaultEndpoint(call.appsyncUrl), None, call.request, None,
                    NotPassed, NotPassed, None)
    /\ pc' = "enter"
    /\ UNCHANGED gqlVars
    /\ UNCHANGED <<env, call, headers, server, response, promise, result, log,
                   callerAborted, attempts, credCalls, signed, backoffs>>

\* typeof result.body === "string"
IsString(v) == v.type = "string"
\* mutant: a single error does not count (errors.length > 1)
HasErrors_moreThanOne(body) == body.hasErrors /\ Len(body.errors) > 1

\* result.body.errors?.length
HasErrors(body) == body.hasErrors /\ Len(body.errors) > 0
\* the errors member of a parsed body, as JSON.stringify sees it
ErrorsOf(body) == Value("object", FALSE, "", None, TRUE, body.errors)

FailedMessage == "Request to GraphQL failed: "
ErrorsMessage == "GraphQL request errors: "

\* mutant: a text body is a failure only when the status code is not 200
Outcome_textOnlyOnErrorStatus(p) ==
    IF p.state = "rejected" THEN Rejected(p.error)
    ELSE IF IsString(p.body) /\ p.statusCode # 200
    THEN Rejected(Err("Error", "", FailedMessage, p.body, None))
    ELSE IF HasErrors(p.body)
    THEN Rejected(Err("Error", "", ErrorsMessage, JSONstringify(ErrorsOf(p.body)), None))
    ELSE Fulfilled(0, Value("data", FALSE, "", p.body.data, FALSE, <<>>))

\* mutant: the whole body is returned instead of body.data
Outcome_wholeBody(p) ==
    IF p.state = "rejected" THEN Rejected(p.error)
    ELSE IF IsString(p.body)
    THEN Rejected(Err("Error", "", FailedMessage, p.body, None))
    ELSE IF HasErrors(p.body)
    THEN Rejected(Err("Error", "", ErrorsMessage, JSONstringify(ErrorsOf(p.body)), None))
    ELSE Fulfilled(p.statusCode, p.body)

\* what appSyncClient does with the settled result of graphQlClient: the
\* promise it returns ...
Outcome(p) ==
    IF p.state = "rejected" THEN Rejected(p.error)
    ELSE IF IsString(p.body)
    THEN Rejected(Err("Error", "", FailedMessage, p.body, None))
    ELSE IF HasErrors(p.body)
    THEN Rejected(Err("Error", "", ErrorsMessage, JSONstringify(ErrorsOf(p.body)), None))
    ELSE Fulfilled(0, Value("data", FALSE, "", p.body.data, FALSE, <<>>))

\* ... and what it writes with console.error before it throws
Logged(p) ==
    IF p.state = "rejected" THEN <<>>
    ELSE IF IsString(p.body) THEN <<FailedMessage, p.body>>
    ELSE IF HasErrors(p.body) THEN <<ErrorsMessage, JSONstringify(ErrorsOf(p.body))>>
    ELSE <<>>

\* the continuation of appSyncClient once graphQlClient's promise is settled
AppSyncResume ==
    /\ AwaitReady
    /\ result' = Outcome(promise)
    /\ log' = IF Logged(promise) = <<>> THEN log ELSE Append(log, Logged(promise))
    /\ UNCHANGED gqlVars
    /\ UNCHANGED <<env, call, args, pc, headers, server, response, promise,
                   callerAborted, attempts, credCalls, signed, backoffs>>

(***************************************************************************)
(* gql: the template tag that strips whitespace and comments               *)
(***************************************************************************)
\* The characters of a template, as far as the four regular expressions
\* tell them apart: a space and a line feed (both \s), "#", the six letters
\* "import" taken as one token, any other character ("a") and a double quote.
Chars == {" ", "\n", "#", "import", "a", "\""}
\* length of the template text without substitution
MaxLen == 5
\* length of a literal part next to a substitution
MaxChunkLen == 2

Texts(n) == UNION {[1..k -> Chars] : k \in 0..n}
\* String(value) of the substitution values that are tried
Substitutions == {<<"a">>, <<"#", "a">>}

\* no match of a regular expression at a position
NoMatch == 0 - 1
Max(S) == CHOOSE x \in S : \A y \in S : y <= x

\* \s
IsSpace(c) == c \in {" ", "\n"}
\* ^ under the m flag: at the start of the string or after a line feed
LineStart(s, p) == p = 1 \/ s[p - 1] = "\n"
\* $ under the m flag: at the end of the string or before a line feed
LineEnd(s, p) == p = Len(s) + 1 \/ s[p] = "\n"
\* greedy \s* from position p: the index of the last character it takes
\* (p - 1 when it takes none)
SpaceRun(s, p) ==
    CHOOSE e \in (p - 1)..Len(s) :
        /\ \A k \in p..e : IsSpace(s[k])
        /\ e = Len(s) \/ ~IsSpace(s[e + 1])
\* greedy .* from position p: "." is any character but a line feed
DotRun(s, p) ==
    CHOOSE e \in (p - 1)..Len(s) :
        /\ \A k \in p..e : s[k] # "\n"
        /\ e = Len(s) \/ s[e + 1] = "\n"

\* The match of a regular expression at position p of s: the index of the
\* last character of the match (p - 1 for an empty match), or NoMatch.
\*   "leading"  /^\s+/m
\*   "trailing" /\s*$/m               \s* gives back until "$" matches
\*   "comment"  /^\s*#\s*(?!import).*$/m
\*              the \s* after "#" gives back until the lookahead passes
\*   "blank"    /\n[\s\t]*\n/         [\s\t]* gives back up to a line feed
Match(re, s, p) ==
    CASE re = "leading" ->
           IF LineStart(s, p) /\ p <= Len(s) /\ IsSpace(s[p])
           THEN SpaceRun(s, p) ELSE NoMatch
      [] re = "trailing" ->
           LET K == {k \in (p - 1)..SpaceRun(s, p) : LineEnd(s, k + 1)}
           IN IF K = {} THEN NoMatch ELSE Max(K)
      [] re = "comment" ->
           IF ~LineStart(s, p) THEN NoMatch
           ELSE LET h == SpaceRun(s, p) + 1 IN
                IF h > Len(s) \/ s[h] # "#" THEN NoMatch
                ELSE LET K == {k \in h..SpaceRun(s, h + 1) :
                                  ~(k + 1 <= Len(s) /\ s[k + 1] = "import")}
                     IN IF K = {} THEN NoMatch ELSE DotRun(s, Max(K) + 1)
      [] re = "blank" ->
           IF p <= Len(s) /\ s[p] = "\n"
           THEN LET K == {k \in (p + 1)..SpaceRun(s, p + 1) : s[k] = "\n"}
                IN IF K = {} THEN NoMatch ELSE Max(K)
           ELSE NoMatch

\* String.prototype.replace with the g flag, from position p on: the
\* leftmost match is replaced and the search goes on behind it (one
\* character further after an empty match)
RECURSIVE ReplaceFrom(_, _, _, _)
ReplaceFrom(re, s, p, by) ==
    IF p > Len(s) + 1 THEN <<>>
    ELSE LET m == Match(re, s, p)
             here == IF p <= Len(s) THEN <<s[p]>> ELSE <<>>
         IN IF m = NoMatch THEN here \o ReplaceFrom(re, s, p + 1, by)
            ELSE IF m >= p THEN by \o ReplaceFrom(re, s, m + 1, by)
            ELSE by \o here \o ReplaceFrom(re, s, p + 1, by)
Replace(s, re, by) == ReplaceFrom(re, s, 1, by)

\* String.raw(chunks, ...variables): the literal parts with the substitution
\* values between them
RECURSIVE StringRaw(_, _)
StringRaw(ch, vs) ==
    IF ch = <<>> THEN <<>>
    ELSE IF Len(ch) = 1 \/ vs = <<>> THEN Head(ch) \o StringRaw(Tail(ch), <<>>)
    ELSE Head(ch) \o Head(vs) \o StringRaw(Tail(ch), Tail(vs))

\* export const gql = (chunks, ...variables) => String.raw(...).replace(...)...
gql(ch, vs) ==
    Replace(Replace(Replace(Replace(StringRaw(ch, vs),
        "leading", <<>>), "trailing", <<>>), "comment", <<>>), "blank", <<"\n">>)

\* gql`...`
GqlTag ==
    /\ gqlPc = "source"
    /\ query' = gql(chunks, variables)
    /\ gqlPc' = "tagged"
    /\ UNCHANGED <<chunks, variables, requery>>
    /\ UNCHANGED clientVars

\* gql`${query}`: the tag applied to its own result
GqlRetag ==
    /\ gqlPc = "tagged"
    /\ requery' = gql(<<<<>>, <<>>>>, <<query>>)
    /\ gqlPc' = "retagged"
    /\ UNCHANGED <<chunks, variables, query>>
    /\ UNCHANGED clientVars

(***************************************************************************)
(* Callers, initial states, specification                                  *)
(***************************************************************************)
GraphQlCalls ==
    [fn : {"graphQlClient"}, appsyncUrl : Urls, apiKey : {None, "", TheKey},
     request : {TheRequest}, region : {None, "us-east-1"},
     maxRetries : 0..MaxRetriesArg, timeoutMs : TimeoutArgs, signal : {None, "caller"}]

AppSyncCalls ==
    [fn : {"appSyncClient"}, appsyncUrl : Urls \cup {NoUrl}, apiKey : {None},
     request : {TheRequest}, region : {None},
     maxRetries : {NotPassed}, timeoutMs : {NotPassed}, signal : {None}]

Init ==
    /\ call \in GraphQlCalls \cup AppSyncCalls
    /\ env \in [AWS_REGION : {None, "us-west-2"}, GRAPHQL_API_ENDPOINT : {NoUrl, LocalUrl}]
    /\ call.fn = "graphQlClient" => env.GRAPHQL_API_ENDPOINT = NoUrl
    /\ args = IF call.fn = "graphQlClient"
              THEN Args(call.appsyncUrl, call.apiKey, call.request, call.region,
                        call.maxRetries, call.timeoutMs, call.signal)
              ELSE NoArgs
    /\ pc = IF call.fn = "graphQlClient" THEN "enter" ELSE "call"
    /\ headers = BaseHeaders(args)
    /\ server = NoServer
    /\ response = NoResponse
    /\ promise = Pending
    /\ result = Pending
    /\ log = <<>>
    /\ callerAborted = FALSE
    /\ attempts = <<>>
    /\ credCalls = 0
    /\ signed = <<>>
    /\ backoffs = 0
    /\ chunks = <<>>
    /\ variables = <<>>
    /\ query = <<>>
    /\ requery = <<>>
    /\ gqlPc = "idle"

Next ==
    \/ EnterNoRegion
    \/ EnterApiKey
    \/ EnterSign
    \/ SignDone
    \/ SignFail
    \/ ReqReset
    \/ ReqRefused
    \/ SocketTimeout
    \/ SignalAbort
    \/ ResponseHead
    \/ ResEnd
    \/ BodyAborted
    \/ BodySocketError
    \/ LateSocketError
    \/ BackoffDone
    \/ CallerAbort
    \/ AppSyncNoEndpoint
    \/ AppSyncInvoke
    \/ AppSyncResume

Spec == Init /\ [][Next]_vars

\* The event loop delivers every event that is due: a call that can take a
\* step takes one (each attempt ends with a response, an error or a
\* timeout; timers and awaited promises fire).
SpecLive == Spec /\ WF_vars(Next)

\* no client call under way
NoCall ==
    [fn |-> "none", appsyncUrl |-> NoUrl, apiKey |-> None, request |-> None,
     region |-> None, maxRetries |-> NotPassed, timeoutMs |-> NotPassed, signal |-> None]

\* the tagged templates: a text without substitution, or two literal parts
\* around one substitution
InitGql ==
    /\ \/ \E x \in Texts(MaxLen) : chunks = <<x>> /\ variables = <<>>
       \/ \E x1 \in Texts(MaxChunkLen), x2 \in Texts(MaxChunkLen), v \in Substitutions :
              chunks = <<x1, x2>> /\ variables = <<v>>
    /\ query = <<>>
    /\ requery = <<>>
    /\ gqlPc = "source"
    /\ call = NoCall
    /\ env = [AWS_REGION |-> None, GRAPHQL_API_ENDPOINT |-> NoUrl]
    /\ args = NoArgs
    /\ pc = "idle"
    /\ headers = BaseHeaders(args)
    /\ server = NoServer
    /\ response = NoResponse
    /\ promise = Pending
    /\ result = Pending
    /\ log = <<>>
    /\ callerAborted = FALSE
    /\ attempts = <<>>
    /\ credCalls = 0
    /\ signed = <<>>
    /\ backoffs = 0

NextGql ==
    \/ GqlTag
    \/ GqlRetag

SpecGql == InitGql /\ [][NextGql]_vars

(***************************************************************************)
(* Observations used by the properties                                     *)
(***************************************************************************)
\* the options the caller's invocation runs with
CallerMaxRetries ==
    IF call.maxRetries = NotPassed THEN DefaultMaxRetries ELSE call.maxRetries
CallerTimeoutMs ==
    IF call.timeoutMs = NotPassed THEN APPSYNC_MAX_QUERY_RUNTIME_MS ELSE call.timeoutMs

NAttempts == Len(attempts)
\* how many times the server's request handler has been invoked
ServerCalls ==
    Cardinality({i \in 1..NAttempts : attempts[i].kind \in Handled})
\* the first k attempts were reset by the server before any response
Resets(k) ==
    /\ k <= NAttempts
    /\ \A i \in 1..k : attempts[i].kind = "reset" /\ attempts[i].event = "reset"
\* the last attempt was answered and its response read to the end
Answered == NAttempts >= 1 /\ attempts[NAttempts].event = "end"
\* the body graphQlClient hands out for the current response
BodyIsParsed(body) ==
    /\ body.type = "object"
    /\ body.data = response.data.data
    /\ body.hasErrors = response.data.hasErrors
    /\ body.errors = response.data.errors
\* the text of the current response encodes a non-empty errors list
ResponseHasErrors ==
    response.data.json /\ response.data.hasErrors /\ Len(response.data.errors) > 0

(***************************************************************************)
(* Properties                                                              *)
(***************************************************************************)
\* C1: retries connection resets until success.  When the server resets the
\* first k attempts and answers the next one, with k < maxRetries, the call
\* is not over after the k resets, and it ends fulfilled with the answer's
\* statusCode and body after exactly k + 1 server invocations.
C1_RetryUntilSuccess ==
    pc = "done" =>
        /\ (NAttempts >= 1 /\ Resets(NAttempts)) => NAttempts >= CallerMaxRetries
        /\ (Answered /\ Resets(NAttempts - 1) /\ NAttempts - 1 < CallerMaxRetries) =>
              /\ promise.state = "fulfilled"
              /\ promise.statusCode = response.statusCode
              /\ IF IsJsonResponse(response)
                 THEN BodyIsParsed(promise.body)
                 ELSE promise.body = response.data
              /\ ServerCalls = NAttempts

\* C1 witness: two resets, then an answer, with maxRetries = 3 (the test)
C1_Witness ==
    /\ pc = "done"
    /\ call.fn = "graphQlClient"
    /\ call.maxRetries = 3
    /\ Resets(2)
    /\ NAttempts = 3
    /\ Answered
    /\ ServerCalls = 3
    /\ promise.state = "fulfilled"
    /\ promise.statusCode = 200
    /\ promise.body.type = "object"

\* C2: against a server that resets every connection, a call with
\* maxRetries = N >= 1 makes exactly N attempts and rejects with the
\* connection-reset error of the last one.
C2_ExactlyNAttempts ==
    (pc = "done" /\ NAttempts >= 1 /\ Resets(NAttempts) /\ CallerMaxRetries >= 1) =>
        /\ NAttempts = CallerMaxRetries
        /\ ServerCalls = CallerMaxRetries
        /\ promise = Rejected(ConnReset("socket hang up"))

\* C2 witness: maxRetries = 1, one reset, rejected after one attempt
C2_Witness ==
    /\ pc = "done"
    /\ call.fn = "graphQlClient"
    /\ call.maxRetries = 1
    /\ Resets(1)
    /\ NAttempts = 1
    /\ promise.state = "rejected"
    /\ promise.error.code = "ECONNRESET"

\* C2 witness of the general case: three resets with maxRetries = 3
C2_WitnessThree ==
    /\ pc = "done"
    /\ call.maxRetries = 3
    /\ Resets(3)
    /\ NAttempts = 3
    /\ promise.state = "rejected"

\* C3 (as claimed): when the server does not complete its response within
\* the caller's timeoutMs, the call rejects with a TimeoutError carrying the
\* original request.
C3_TimeoutErrorOnTimeout ==
    (/\ pc = "done"
     /\ NAttempts >= 1
     /\ attempts[NAttempts].kind \in Handled
     /\ server.delay >= CallerTimeoutMs) =>
        /\ promise.state = "rejected"
        /\ promise.error.name = "TimeoutError"
        /\ promise.error.request = call.request

\* the error an attempt's failure event hands to the "error" listener
FailureOf(ev) ==
    IF ev = "timeout" THEN TimeoutError("Operation timed out", call.request)
    ELSE IF ev = "abort" THEN AbortError
    ELSE ConnRefused

\* C4: only a connection reset is retried.  An attempt that fails with a
\* timeout, an abort or another transport error is the last attempt: no
\* backoff wait follows it, and the call is over, rejected with that very
\* error when the call was still pending (every earlier attempt was reset
\* before any response); and every attempt that was followed by another one
\* had failed with ECONNRESET.
C4_OnlyResetIsRetried ==
    \A i \in 1..NAttempts :
        /\ attempts[i].event \in {"timeout", "abort", "refused"} =>
              /\ i = NAttempts
              /\ pc = "done"
              /\ backoffs = NAttempts - 1
              /\ promise.state # "pending"
              /\ Resets(i - 1) => promise = Rejected(FailureOf(attempts[i].event))
        /\ i < NAttempts => attempts[i].event \in {"reset", "body-reset", "late-reset"}

\* C4 witness: a timeout on a retried attempt with retries left
C4_Witness ==
    /\ NAttempts = 2
    /\ Resets(1)
    /\ attempts[2].event = "timeout"
    /\ attempts[2].maxRetries > 1
    /\ promise.state = "rejected"
    /\ promise.error.name = "TimeoutError"

\* C5: appSyncClient rejects whenever graphQlClient hands it a JSON body
\* with a non-empty errors list, whatever the status code (200 included),
\* and the errors are on console.error by the time it has thrown.
C5_ThrowsOnGraphQlErrors ==
    (/\ call.fn = "appSyncClient"
     /\ promise.state = "fulfilled"
     /\ promise.body.type = "object"
     /\ promise.body.hasErrors
     /\ Len(promise.body.errors) > 0
     /\ ~AwaitReady) =>
        /\ result.state = "rejected"
        /\ result.error.message = ErrorsMessage
        /\ result.error.detail.errors = promise.body.errors
        /\ log = << <<ErrorsMessage, result.error.detail>> >>

\* C5 witness: status 200, {"data": null, "errors": [...]}, rejected
C5_Witness ==
    /\ call.fn = "appSyncClient"
    /\ promise.state = "fulfilled"
    /\ promise.statusCode = 200
    /\ promise.body.type = "object"
    /\ promise.body.data = "null"
    /\ promise.body.errors = <<Unauthorized>>
    /\ result.state = "rejected"
    /\ Len(log) = 1

\* C6: appSyncClient rejects whenever graphQlClient hands it a text body,
\* whatever the status code, and the error carries the raw body text.
C6_ThrowsOnTextBody ==
    (/\ call.fn = "appSyncClient"
     /\ promise.state = "fulfilled"
     /\ promise.body.type = "string"
     /\ ~AwaitReady) =>
        /\ result.state = "rejected"
        /\ result.error.message = FailedMessage
        /\ result.error.detail = promise.body
        /\ result.error.detail = response.data

\* C6 witness: a 200 response with a text body
C6_Witness ==
    /\ call.fn = "appSyncClient"
    /\ promise.state = "fulfilled"
    /\ promise.statusCode = 200
    /\ promise.body = RawText("Forbidden")
    /\ result.state = "rejected"

\* graphQlClient handed appSyncClient a JSON body without errors
CleanBody ==
    /\ promise.state = "fulfilled"
    /\ promise.body.type = "object"
    /\ ~(promise.body.hasErrors /\ Len(promise.body.errors) > 0)

C8_ErrorsAreResolved ==
    (/\ pc = "done"
     /\ Answered
     /\ Resets(NAttempts - 1)
     /\ IsJsonResponse(response)
     /\ ResponseHasErrors) =>
        /\ promise.state = "fulfilled"
        /\ promise.statusCode = response.statusCode
        /\ BodyIsParsed(promise.body)
        /\ promise.body.errors # <<>>

\* C8 witness: two errors in the body of a fulfilled call
C8_Witness ==
    /\ pc = "done"
    /\ Answered
    /\ call.fn = "graphQlClient"
    /\ promise.state = "fulfilled"
    /\ promise.body.type = "object"
    /\ promise.body.errors = <<Unauthorized, NotFound>>

\* C9: with an API key configured (a non-empty apiKey), no attempt, first
\* or retried, calls the credential provider or the signer, and every
\* outgoing request carries x-api-key with that key.
C9_ApiKeyNeverSigns ==
    Truthy(call.apiKey) =>
        /\ credCalls = 0
        /\ signed = <<>>
        /\ pc # "sign"
        /\ \A i \in 1..NAttempts :
              /\ "x-api-key" \in DOMAIN attempts[i].headers
              /\ attempts[i].headers["x-api-key"] = call.apiKey

\* C9 witness: a retried attempt of a call with an API key
C9_Witness ==
    /\ Truthy(call.apiKey)
    /\ NAttempts = 2
    /\ Resets(1)
    /\ attempts[2].headers["x-api-key"] = TheKey

\* C10: without an API key every attempt, first or retried, is sent with
\* the header set the signer returned for that attempt and without
\* x-api-key; and every outgoing request carries exactly one of x-api-key
\* and a signature.
C10_SignedHeadersPerAttempt ==
    /\ ~Truthy(call.apiKey) =>
          /\ Len(signed) = NAttempts
          /\ \A i \in 1..NAttempts :
                /\ attempts[i].headers = signed[i]
                /\ "x-api-key" \notin DOMAIN attempts[i].headers
    /\ \A i \in 1..NAttempts :
          ("x-api-key" \in DOMAIN attempts[i].headers)
              # ("authorization" \in DOMAIN attempts[i].headers)

\* C10 witness: a retried attempt sent with the second signing's headers
C10_Witness ==
    /\ call.apiKey = None
    /\ NAttempts = 2
    /\ Len(signed) = 2
    /\ attempts[2].headers = signed[2]
    /\ attempts[2].headers["x-amz-date"] = 2
    /\ attempts[1].headers # attempts[2].headers

\* the endpoint the caller's invocation reaches graphQlClient with
CallEndpoint ==
    IF call.fn = "appSyncClient" THEN DefaultEndpoint(call.appsyncUrl) ELSE call.appsyncUrl
\* the caller passed no region, the endpoint yields none, AWS_REGION is unset
NoRegionResolvable ==
    /\ call.region = None
    /\ InferRegion(CallEndpoint) = None
    /\ env.AWS_REGION = None
\* C11: when no region can be resolved, graphQlClient fails with the
\* configuration error before anything else happens: credentialProvider is
\* never called, nothing is signed, no request is handed to h.request and no
\* backoff wait is started; the call ends rejected with the ReferenceError.
C11_NoRegionFailsFirst ==
    (NoRegionResolvable /\ CallEndpoint # NoUrl) =>
        /\ credCalls = 0
        /\ signed = <<>>
        /\ attempts = <<>>
        /\ backoffs = 0
        /\ pc \in {"call", "enter", "threw"}
        /\ pc = "threw" => promise = Rejected(RegionError)

\* C11 witness: a call with an API key to a host that yields no region, no
\* AWS_REGION: rejected with the ReferenceError, nothing sent
C11_Witness ==
    /\ pc = "threw"
    /\ NoRegionResolvable
    /\ call.fn = "graphQlClient"
    /\ call.appsyncUrl = LocalUrl
    /\ call.apiKey = TheKey
    /\ promise = Rejected(RegionError)
    /\ attempts = <<>>
    /\ credCalls = 0

\* the region label of a host of the form <id>.<region>.amazonaws.com
HostRegion(url) ==
    LET n == Len(url.labels) IN
    IF n >= 4 /\ url.labels[n - 1] = "amazonaws" /\ url.labels[n] = "com"
    THEN url.labels[n - 2]
    ELSE None

\* C12 (as claimed): for every endpoint whose host has the form
\* <id>.<region>.amazonaws.com, with or without a path, a call without an
\* explicit region and without AWS_REGION runs with the region taken from the
\* host and never fails with the missing-region error.
C12_RegionFromHost ==
    (/\ HostRegion(CallEndpoint) # None
     /\ call.region = None
     /\ env.AWS_REGION = None) =>
        /\ promise # Rejected(RegionError)
        /\ pc \notin {"call", "enter"} => args.region = HostRegion(CallEndpoint)

\* C13: appSyncClient calls graphQlClient with the explicit endpoint argument
\* when one is given and with GRAPHQL_API_ENDPOINT otherwise, and every
\* request goes to that host; when neither is there it throws the
\* configuration error while graphQlClient has not been invoked and nothing
\* has been signed or sent.
C13_EndpointResolution ==
    call.fn = "appSyncClient" =>
        IF call.appsyncUrl = NoUrl /\ env.GRAPHQL_API_ENDPOINT = NoUrl
        THEN /\ pc \in {"call", "threw"}
             /\ args = NoArgs
             /\ promise = Pending
             /\ attempts = <<>>
             /\ credCalls = 0
             /\ signed = <<>>
             /\ pc = "threw" => result = Rejected(EndpointError)
        ELSE /\ result # Rejected(EndpointError)
             /\ pc # "call" =>
                   LET endpoint == IF call.appsyncUrl # NoUrl THEN call.appsyncUrl
                                   ELSE env.GRAPHQL_API_ENDPOINT
                   IN /\ args.appsyncUrl = endpoint
                      /\ \A i \in 1..NAttempts : attempts[i].headers["host"] = endpoint.labels

\* C13 witness: an explicit endpoint and a different GRAPHQL_API_ENDPOINT; the
\* request went to the explicit one
C13_Witness ==
    /\ call.fn = "appSyncClient"
    /\ call.appsyncUrl = AwsUrl
    /\ env.GRAPHQL_API_ENDPOINT = LocalUrl
    /\ NAttempts = 1
    /\ attempts[1].headers["host"] = AwsUrl.labels
    /\ result.state = "fulfilled"

\* C13 witness of the other cases: the environment's endpoint is used, and
\* the configuration error when there is none
C13_WitnessEnv ==
    /\ call.fn = "appSyncClient"
    /\ call.appsyncUrl = NoUrl
    /\ env.GRAPHQL_API_ENDPOINT = LocalUrl
    /\ NAttempts = 1
    /\ attempts[1].headers["host"] = LocalUrl.labels
C13_WitnessThrows ==
    /\ call.fn = "appSyncClient"
    /\ pc = "threw"
    /\ result = Rejected(EndpointError)
    /\ promise = Pending

\* the text handed to the tag, and its parts
Source == StringRaw(chunks, variables)
SingleLine(s) == \A k \in 1..Len(s) : s[k] # "\n"
RECURSIVE TrimStart(_)
TrimStart(s) == IF s # <<>> /\ IsSpace(Head(s)) THEN TrimStart(Tail(s)) ELSE s
RECURSIVE TrimEnd(_)
TrimEnd(s) ==
    IF s # <<>> /\ IsSpace(s[Len(s)]) THEN TrimEnd(SubSeq(s, 1, Len(s) - 1)) ELSE s
Trim(s) == TrimEnd(TrimStart(s))
\* the first non-whitespace character of the line is "#"
IsCommentLine(line) == Trim(line) # <<>> /\ Trim(line)[1] = "#"
\* the line is an import pragma: #import "..."
IsImportPragma(line) ==
    LET t == Trim(line) IN
    /\ Len(t) >= 5
    /\ t[1] = "#" /\ t[2] = "import" /\ t[3] = " " /\ t[4] = "\"" /\ t[Len(t)] = "\""
    /\ \A k \in 5..(Len(t) - 1) : t[k] # "\""

\* C14 (as claimed): of a one-line template, gql keeps an import pragma
\* #import "..." as it is, apart from the indentation, and removes every
\* other line whose first non-whitespace character is "#".
C14_OnlyPragmaCommentsKept ==
    (gqlPc # "source" /\ SingleLine(Source)) =>
        /\ IsImportPragma(Source) => query = Trim(Source)
        /\ (IsCommentLine(Source) /\ ~IsImportPragma(Source)) => query = <<>>

\* C15 (as claimed): gql applied to its own result returns that result.
C15_Idempotent == gqlPc = "retagged" => requery = query

\* the lines of a text: for each line start, the characters up to the line feed
LinesOf(s) == {SubSeq(s, p, DotRun(s, p)) : p \in {q \in 1..(Len(s) + 1) : LineStart(s, q)}}
\* a comment line that is no import pragma and does not start with #import
IsPlainComment(line) ==
    /\ IsCommentLine(line)
    /\ ~(Len(Trim(line)) >= 2 /\ Trim(line)[2] = "import")

\* C16 (as claimed): gql returns the empty string for the empty template and
\* for every template that consists of comment lines and whitespace only.
C16_CommentsOnlyGiveEmpty ==
    (/\ gqlPc # "source"
     /\ \A line \in LinesOf(Source) : Trim(line) = <<>> \/ IsPlainComment(line)) =>
        query = <<>>

\* a backoff wait and a new invocation with maxRetries - 1 followed attempt
\* i, and the call did not fail with it
RetriedAfter(i) ==
    /\ backoffs >= i
    /\ IF i < NAttempts
       THEN attempts[i + 1].maxRetries = attempts[i].maxRetries - 1
       ELSE /\ pc \in {"backoff", "enter", "sign", "threw"}
            /\ pc \in {"enter", "sign", "threw"} =>
                  args.maxRetries = attempts[i].maxRetries - 1
            /\ (Resets(i) /\ pc # "threw") => promise = Pending

\* the connection was reset during attempt i: before any response, or while
\* the body was read
ConnectionReset(i) == attempts[i].event \in {"reset", "aborted", "body-reset"}

\* C17 (as claimed): whenever an attempt fails with a connection reset while
\* the maxRetries value in force for it is greater than 0, a backoff wait and
\* another attempt with the budget decremented follow, instead of a failure.
C17_RetryWhileBudgetPositive ==
    \A i \in 1..NAttempts :
        (ConnectionReset(i) /\ attempts[i].maxRetries > 0) => RetriedAfter(i)

\* What the error listener does: an attempt that is reset before any
\* response while the maxRetries value in force for it is greater than 1 is
\* followed by a backoff wait and another attempt with maxRetries
\* decremented, the call still pending; with maxRetries at most 1 the reset
\* ends the call.
RetryWhileMoreThanOne ==
    \A i \in 1..NAttempts :
        attempts[i].event = "reset" =>
            IF attempts[i].maxRetries > 1
            THEN RetriedAfter(i)
            ELSE /\ i = NAttempts
                 /\ pc = "done"
                 /\ promise.state # "pending"
                 /\ Resets(i) => promise = Rejected(ConnReset("socket hang up"))

\* a reset with maxRetries = 2, the wait, and a second attempt with
\* maxRetries = 1 on its way
RetryWhileMoreThanOne_Witness ==
    /\ NAttempts = 2
    /\ attempts[1].event = "reset"
    /\ attempts[1].maxRetries = 2
    /\ attempts[2].maxRetries = 1
    /\ backoffs = 1
    /\ pc = "sent"
    /\ promise = Pending

\* C18 (as claimed): every attempt, the first and each retried one, runs with
\* a timeout window of the caller's timeoutMs; a retried attempt during which
\* the server stays silent for the caller's timeoutMs or longer ends with the
\* timeout, as a first attempt would.
C18_CallerTimeoutOnEveryAttempt ==
    /\ \A i \in 1..NAttempts : attempts[i].timeoutMs = CallerTimeoutMs
    /\ (/\ NAttempts >= 2
        /\ attempts[NAttempts].kind \in Handled
        /\ server.delay >= CallerTimeoutMs) =>
           attempts[NAttempts].event \in {"none", "timeout"}

\* C19 (as claimed): the caller's signal is honoured wherever the call is
\* suspended.  Once the caller has aborted, no further attempt reaches the
\* server, and a call that was aborted while under way ends rejected.
C19_AbortHonouredEverywhere ==
    [][/\ callerAborted => ServerCalls' = ServerCalls
       /\ (callerAborted' /\ pc' = "done") => promise'.state = "rejected"]_vars

\* a settled promise keeps its outcome: no second result, no error after a
\* result, no result after an error
SettledOnce ==
    [][/\ promise.state # "pending" => promise' = promise
       /\ result.state # "pending" => result' = result]_vars

\* C20 (as claimed): whatever the order of the response's "end" and "error"
\* and the request's "error" and "timeout" events and of an abort, a call has
\* one outcome: once its promise is settled the outcome does not change, and
\* once a result has been delivered no backoff wait and no attempt is started.
C20_OneOutcomeNoRetryAfterResult ==
    [][/\ promise.state # "pending" => promise' = promise
       /\ promise.state = "fulfilled" =>
             backoffs' = backoffs /\ NAttempts' = NAttempts]_vars

\* C21 (as claimed): when a response with a JSON content type carries a body
\* that is not valid JSON, the call is rejected with the parse failure and no
\* further attempt follows: the call does not stay pending.
C21_ParseFailureRejects ==
    \A i \in 1..NAttempts :
        attempts[i].event = "parse-throw" =>
            /\ i = NAttempts
            /\ backoffs = NAttempts - 1
            /\ promise.state = "rejected"

\* the header value contains "application/json", in whatever letter case
DeclaresJson(contentType) ==
    contentType \in {"application/json", "Application/JSON; charset=UTF-8"}

\* C22: the body graphQlClient returns for a response read to its end is the
\* parsed JSON value exactly when the content-type header contains
\* "application/json" in any letter case; otherwise, and when the header is
\* absent, it is the body text as received; the statusCode is the response's.
C22_BodyByContentType ==
    (pc = "done" /\ Answered /\ Resets(NAttempts - 1)) =>
        /\ promise.state = "fulfilled"
        /\ promise.statusCode = response.statusCode
        /\ IF DeclaresJson(response.contentType)
           THEN BodyIsParsed(promise.body)
           ELSE promise.body = response.data /\ promise.body.type = "string"

\* C22 witness: a mixed-case JSON content type, the body is the parsed object
C22_Witness ==
    /\ pc = "done"
    /\ Answered
    /\ Resets(NAttempts - 1)
    /\ response.contentType = "Application/JSON; charset=UTF-8"
    /\ response.statusCode = 403
    /\ promise.state = "fulfilled"
    /\ promise.statusCode = 403
    /\ promise.body.type = "object"
    /\ promise.body.data = "page"

\* C22 witness of the other case: no content-type header, a JSON text is
\* returned as text
C22_WitnessNoHeader ==
    /\ pc = "done"
    /\ Answered
    /\ response.contentType = None
    /\ response.data = JsonText("page", FALSE, <<>>)
    /\ promise.state = "fulfilled"
    /\ promise.body = response.data

\* the attempts whose request has not ended: no "end", no "error" yet
InFlight == {i \in 1..NAttempts : attempts[i].event = "none"}

\* C23: the attempts of a call are strictly sequential.  At most one attempt
\* is in flight at any moment, and when attempt k + 1 is started the request
\* of attempt k has ended with an ECONNRESET error and the backoff wait that
\* followed it is over: no attempt is started while a wait is under way.
C23_StrictlySequential ==
    /\ Cardinality(InFlight) <= 1
    /\ InFlight \subseteq {NAttempts}
    /\ \A i \in 1..(NAttempts - 1) :
          attempts[i].event \in {"reset", "body-reset", "late-reset"}
    /\ backoffs \in {NAttempts - 1, NAttempts}
    /\ pc = "backoff" => (backoffs = NAttempts /\ InFlight = {})
    /\ pc \in {"sent", "body"} => (backoffs = NAttempts - 1 /\ InFlight = {NAttempts})

\* C23 witness: the second attempt is in flight, the first was reset and the
\* wait after it is over
C23_Witness ==
    /\ NAttempts = 2
    /\ attempts[1].event = "reset"
    /\ attempts[2].event = "none"
    /\ InFlight = {2}
    /\ backoffs = 1
    /\ pc = "sent"

\* the caller's promise is settled: the call is over, with a result or an error
CallOver ==
    IF call.fn = "appSyncClient" THEN result.state # "pending"
    ELSE promise.state # "pending"

\* C24 (as claimed): a call with maxRetries >= 0 makes at most maxRetries + 1
\* attempts, and, every attempt ending with a response, an error or a
\* timeout, the call is eventually over with a result or an error.
C24_BoundedAndTerminates ==
    /\ [](NAttempts <= CallerMaxRetries + 1)
    /\ <>CallOver

\* the region a priority of explicit argument, then the parse p of the
\* endpoint, then AWS_REGION yields for the caller's invocation
RegionByPriority(p) ==
    IF call.region # None THEN call.region
    ELSE IF p # None THEN p
    ELSE env.AWS_REGION

\* C25 (as claimed): every attempt, first or retried, runs with the region that
\* the priority yields: the explicit region when one is passed, else the
\* region of a host <id>.<region>.amazonaws.com, else AWS_REGION.
C25_RegionPriority ==
    \A i \in 1..NAttempts :
        attempts[i].region = RegionByPriority(HostRegion(CallEndpoint))

\* What the parameter default does: the same priority with the parse of the
\* code, which yields a region only when "/" follows "amazonaws.com"; signed
\* requests carry that region in every attempt.
RegionPriorityOfInferred ==
    \A i \in 1..NAttempts :
        /\ attempts[i].region = RegionByPriority(InferRegion(CallEndpoint))
        /\ attempts[i].region = attempts[1].region
        /\ "authorization" \in DOMAIN attempts[i].headers =>
              attempts[i].headers["authorization"][2] = attempts[1].region

\* C26 (as claimed): a call of graphQlClient with an API key for which no
\* region can be resolved is not rejected with the missing-region error: it
\* goes on to hand a request, carrying the x-api-key header, to h.request.
C26_ApiKeyNeedsNoRegion ==
    (/\ call.fn = "graphQlClient"
     /\ Truthy(call.apiKey)
     /\ NoRegionResolvable
     /\ pc \notin {"call", "enter"}) =>
        /\ promise # Rejected(RegionError)
        /\ NAttempts >= 1
        /\ "x-api-key" \in DOMAIN attempts[1].headers

\* the lines of a text in their order: the parts between the line feeds
RECURSIVE SplitLines(_)
SplitLines(s) ==
    IF SingleLine(s) THEN <<s>>
    ELSE LET k == CHOOSE j \in 1..Len(s) : s[j] = "\n" /\ \A m \in 1..(j - 1) : s[m] # "\n"
         IN  <<SubSeq(s, 1, k - 1)>> \o SplitLines(SubSeq(s, k + 1, Len(s)))
\* the lines that are neither blank nor a # comment, stripped of the
\* whitespace around them
RECURSIVE ContentLines(_)
ContentLines(ls) ==
    IF ls = <<>> THEN <<>>
    ELSE IF Trim(Head(ls)) = <<>> \/ IsCommentLine(Head(ls)) THEN ContentLines(Tail(ls))
    ELSE <<Trim(Head(ls))>> \o ContentLines(Tail(ls))
\* the elements of a occur in b, in the order of a
RECURSIVE OccurInOrder(_, _)
OccurInOrder(a, b) ==
    IF a = <<>> THEN TRUE
    ELSE IF b = <<>> THEN FALSE
    ELSE IF Head(a) = Head(b) THEN OccurInOrder(Tail(a), Tail(b))
    ELSE OccurInOrder(a, Tail(b))

\* C27 (as claimed): gql deletes comment lines only: every line of the
\* template, substitution values inserted in their place, that is neither
\* blank nor a # comment is a line of the result, stripped of the whitespace
\* around it and in the original order, whatever comment lines (a bare "#"
\* among them) stand before or after it.
C27_OnlyCommentLinesDeleted ==
    gqlPc # "source" =>
        OccurInOrder(ContentLines(SplitLines(Source)), SplitLines(query))

=============================================================================
